---- MODULE Spec2Model ----
(***************************************************************************)
(* Trade Tracker (src/app-2.py, sheet-backed; src/app.py, CSV-backed).     *)
(*                                                                         *)
(* The model covers the Google-Sheet backed app: the sheet, the process-   *)
(* wide st.cache_data cache in front of the two loaders, and, per browser  *)
(* session, st.session_state.trades_df and full_data_loaded.  One action   *)
(* is one run of the script for one session with one widget event.         *)
(*                                                                         *)
(* Cells of the sheet are text.  A numeric cell is the one-element         *)
(* sequence <<n>>, a non-numeric cell is <<>>.  A Date cell is the text    *)
(* "aa/bb/cc", written <<aa, bb, cc>>.  A datetime is <<year, month, day>>.*)
(* The Position cell stands for the free-text columns (Position, Type,     *)
(* Notes); every trade gets its own label.                                 *)
(***************************************************************************)
EXTENDS Integers, Sequences, FiniteSets, TLC

VARIABLES sheet, cache, trades_df, full_data_loaded, msg, nextPos, rewrites, faults

vars == <<sheet, cache, trades_df, full_data_loaded, msg, nextPos, rewrites, faults>>

----------------------------------------------------------------------------
(* Bounds *)

\* trades that may be added on top of the initial sheet
MaxAdds == 1
\* runs of the handlers that end in update_gsheet
MaxRewrites == 1
\* runs in which a call to Google fails
MaxFaults == 1
\* get_initial_data keeps the last 200 rows of the sheet (app-2.py:51);
\* the slice is scaled down so that a sheet can be longer than the slice
InitialSlice == 1
\* rows of the largest initial sheet, one more than the slice
InitialRows == InitialSlice + 1

Sessions == {"s1", "s2"}

\* st.date_input values, and the (year, month) the dashboard may run in
DateInputs == {<<2026, 10, 5>>, <<2026, 11, 2>>}
Nows == {<<2026, 11>>, <<2026, 12>>, <<2027, 1>>}
Years == {2025, 2026, 2027}
\* st.number_input values for Profit / Loss
PLInputs == {2}
\* values typed into the data editor
EditPL == {5}
EditAV == {7}
EditDates == {<<2026, 10, 5>>}

----------------------------------------------------------------------------
(* Sheet rows and conversions *)

\* row 1 of the sheet: the column names (app-2.py:89)
Header == [pos |-> 0, date |-> <<0, 0, 0>>, pl |-> <<>>, av |-> <<>>]

IsHeader(row) == row.pos = 0

NaT == <<0, 0, 0>>

DaysInMonth(y, m) ==
    IF m \in {4, 6, 9, 11} THEN 30
    ELSE IF m = 2 THEN (IF y % 4 = 0 THEN 29 ELSE 28)
    ELSE 31

\* pd.to_datetime(cell, format="%m/%d/%y", errors='coerce'): %y maps 00..68
\* to 2000..2068 and 69..99 to 1969..1999; anything else becomes NaT
to_datetime(cell) ==
    LET y == IF cell[3] < 69 THEN 2000 + cell[3] ELSE 1900 + cell[3]
    IN  IF /\ cell[3] \in 0..99
           /\ cell[1] \in 1..12
           /\ cell[2] \in 1..DaysInMonth(y, cell[1])
        THEN <<y, cell[1], cell[2]>>
        ELSE NaT

\* date.strftime("%m/%d/%y")
strftime(d) == <<d[2], d[3], d[1] % 100>>

\* pd.to_numeric(cell, errors='coerce').fillna(0)
to_numeric(cell) == IF Len(cell) = 1 THEN cell[1] ELSE 0

\* str(number) as written by astype(str) / append_row
to_str(n) == <<n>>

DateLT(a, b) ==
    \/ a[1] < b[1]
    \/ a[1] = b[1] /\ a[2] < b[2]
    \/ a[1] = b[1] /\ a[2] = b[2] /\ a[3] < b[3]

----------------------------------------------------------------------------
(* DataFrames: a frame is a sequence of rows [pos, date, pl, av] with a    *)
(* datetime in date and numbers in pl and av.  The index labels of a frame *)
(* are left out: every use in the script (drop, update) aligns a frame     *)
(* with a chunk taken from that same frame.                                *)

EmptyFrame == <<>>

SeqSum(f) ==
    LET RECURSIVE go(_)
        go(i) == IF i = 0 THEN 0 ELSE f[i] + go(i - 1)
    IN  go(Len(f))

\* df.sort_values(by="Date", ascending=...): the frames it may return.  The
\* default sort kind is not stable, so rows that share a date may come out
\* in any order.
sort_values(df, ascending) ==
    LET before(a, b) == IF ascending THEN DateLT(a, b) ELSE DateLT(b, a)
        first(idx) == {i \in idx : \A j \in idx : ~before(df[j].date, df[i].date)}
        RECURSIVE go(_)
        go(idx) == IF idx = {} THEN {<<>>}
                   ELSE UNION { { <<df[i]>> \o rest : rest \in go(idx \ {i}) }
                                : i \in first(idx) }
    IN  go(1..Len(df))

\* one record of the sheet as a typed row (app-2.py:34, 36, 37)
ParseRow(row) ==
    [pos |-> row.pos, date |-> to_datetime(row.date),
     pl |-> to_numeric(row.pl), av |-> to_numeric(row.av)]

HasDate(r) == r.date # NaT

\* process_data(records): the frames it may return.  hasDateColumn tells
\* whether the header the records were zipped with names a Date column.
process_data(records, hasDateColumn) ==
    IF records = <<>> THEN {EmptyFrame}
    ELSE IF ~hasDateColumn THEN {EmptyFrame}
    ELSE sort_values(SelectSeq([i \in 1..Len(records) |-> ParseRow(records[i])], HasDate),
                     FALSE)

LastRows(s, n) == IF Len(s) <= n THEN s ELSE SubSeq(s, Len(s) - n + 1, Len(s))

\* body of get_initial_data on a cache miss; ioOk: the sheet could be read
get_initial_data(client, ioOk, all_values) ==
    IF ~client THEN {EmptyFrame}
    ELSE IF ~ioOk THEN {EmptyFrame}
    ELSE IF Len(all_values) <= 1 THEN {EmptyFrame}
    ELSE process_data(LastRows(all_values, InitialSlice), IsHeader(all_values[1]))

\* body of get_full_data on a cache miss
get_full_data(client, ioOk, all_values) ==
    IF ~client THEN {EmptyFrame}
    ELSE IF ~ioOk THEN {EmptyFrame}
    ELSE IF Len(all_values) <= 1 THEN {EmptyFrame}
    ELSE process_data(Tail(all_values), IsHeader(all_values[1]))

\* @st.cache_data: an entry is <<>> (miss) or <<frame>>.  The _client
\* argument is not hashed, so each loader has a single entry.  The result
\* is the set of <<returned frame, entry after the call>>.
cache_data(entry, computed) ==
    IF entry # <<>> THEN {<<entry[1], entry>>}
    ELSE {<<v, <<v>>>> : v \in computed}

\* st.cache_data.clear()
NoCache == [initial |-> <<>>, full |-> <<>>]

\* update_gsheet without line 91: the cache survives a successful rewrite
update_gsheet_keeps_cache(client, df, datetimelike, failAt, sh, c) ==
    LET failed(s) == [sheet |-> s, cache |-> c, ok |-> FALSE]
        cells(r) == [pos |-> r.pos, date |-> strftime(r.date),
                     pl |-> to_str(r.pl), av |-> to_str(r.av)]
        written(d) == <<Header>> \o [i \in 1..Len(d) |-> cells(d[i])]
    IN  IF ~client \/ failAt = "open" THEN {failed(sh)}
        ELSE IF ~datetimelike THEN {failed(sh)}
        ELSE IF failAt = "header" THEN {failed(<<>>)}
        ELSE IF failAt = "rows" THEN {failed(<<Header>>)}
        ELSE { [sheet |-> written(df_to_save), cache |-> c, ok |-> TRUE] :
                 df_to_save \in sort_values(df, TRUE) }

\* update_gsheet without line 88: header and rows land below what the
\* sheet holds
update_gsheet_without_clear(client, df, datetimelike, failAt, sh, c) ==
    LET failed(s) == [sheet |-> s, cache |-> c, ok |-> FALSE]
        cells(r) == [pos |-> r.pos, date |-> strftime(r.date),
                     pl |-> to_str(r.pl), av |-> to_str(r.av)]
        written(d) == sh \o <<Header>> \o [i \in 1..Len(d) |-> cells(d[i])]
    IN  IF ~client \/ failAt = "open" THEN {failed(sh)}
        ELSE IF ~datetimelike THEN {failed(sh)}
        ELSE IF failAt = "header" THEN {failed(sh)}
        ELSE IF failAt = "rows" THEN {failed(sh \o <<Header>>)}
        ELSE { [sheet |-> written(df_to_save), cache |-> NoCache, ok |-> TRUE] :
                 df_to_save \in sort_values(df, TRUE) }

\* update_gsheet(client, df): the outcomes [sheet, cache, ok] it may have on
\* the sheet sh and the cache c.  datetimelike: df["Date"] has a datetime
\* dtype, which the .dt accessor of line 87 needs; failAt: the gspread call
\* that raises ("open" for open() or clear(), "header", "rows"), or "none".
update_gsheet(client, df, datetimelike, failAt, sh, c) ==
    LET failed(s) == [sheet |-> s, cache |-> c, ok |-> FALSE]
        cells(r) == [pos |-> r.pos, date |-> strftime(r.date),
                     pl |-> to_str(r.pl), av |-> to_str(r.av)]
        written(d) == <<Header>> \o [i \in 1..Len(d) |-> cells(d[i])]
    IN  IF ~client \/ failAt = "open" THEN {failed(sh)}
        ELSE IF ~datetimelike THEN {failed(sh)}
        ELSE IF failAt = "header" THEN {failed(<<>>)}
        ELSE IF failAt = "rows" THEN {failed(<<Header>>)}
        ELSE { [sheet |-> written(df_to_save), cache |-> NoCache, ok |-> TRUE] :
                 df_to_save \in sort_values(df, TRUE) }

\* DataFrame.update(edited_chunk): the rows of the chunk replace the rows
\* of the frame at the same index
update(df, edited_chunk) ==
    [i \in 1..Len(df) |-> IF i \in DOMAIN edited_chunk THEN edited_chunk[i] ELSE df[i]]

\* DataFrame.drop(selected_indices)
drop(df, selected) ==
    LET keep(i) == i \notin selected
        RECURSIVE go(_)
        go(i) == IF i > Len(df) THEN <<>>
                 ELSE IF keep(i) THEN <<df[i]>> \o go(i + 1) ELSE go(i + 1)
    IN  go(1)

\* last_val of the trade form (app-2.py:124)
last_val(df) == IF df # EmptyFrame THEN df[1].av ELSE 0

\* new_val of the trade form (app-2.py:125)
new_val(df, pl) == last_val(df) + pl

----------------------------------------------------------------------------
(* What the tabs show *)

InMonth(r, now) == r.date[1] = now[1] /\ r.date[2] = now[2]

InYear(r, now) == r.date[1] = now[1]

\* the Dashboard tab reading the last row of each frame (iloc[-1]) where
\* the script reads the first (iloc[0])
Dashboard_last_row(dashboard_df, now) ==
    LET inMonth(r) == InMonth(r, now)
        inYear(r) == InYear(r, now)
        month_df == SelectSeq(dashboard_df, inMonth)
        year_df == SelectSeq(dashboard_df, inYear)
        pl(df) == SeqSum([i \in 1..Len(df) |-> df[i].pl])
        last_overall == dashboard_df[Len(dashboard_df)].av
    IN  [month_trades |-> Len(month_df), monthly_pl |-> pl(month_df),
         last_month |-> IF month_df # EmptyFrame THEN month_df[Len(month_df)].av
                        ELSE last_overall,
         year_trades |-> Len(year_df), yearly_pl |-> pl(year_df),
         last_year |-> IF year_df # EmptyFrame THEN year_df[Len(year_df)].av
                       ELSE last_overall,
         trades |-> Len(dashboard_df), overall_pl |-> pl(dashboard_df),
         last_overall |-> last_overall]

\* the Dashboard tab for a non-empty frame, run in the month now
\* (app-2.py:147-155, 170-172)
Dashboard(dashboard_df, now) ==
    LET inMonth(r) == InMonth(r, now)
        inYear(r) == InYear(r, now)
        month_df == SelectSeq(dashboard_df, inMonth)
        year_df == SelectSeq(dashboard_df, inYear)
        pl(df) == SeqSum([i \in 1..Len(df) |-> df[i].pl])
        last_overall == dashboard_df[1].av
    IN  [month_trades |-> Len(month_df), monthly_pl |-> pl(month_df),
         last_month |-> IF month_df # EmptyFrame THEN month_df[1].av ELSE last_overall,
         year_trades |-> Len(year_df), yearly_pl |-> pl(year_df),
         last_year |-> IF year_df # EmptyFrame THEN year_df[1].av ELSE last_overall,
         trades |-> Len(dashboard_df), overall_pl |-> pl(dashboard_df),
         last_overall |-> last_overall]

\* the years the selectbox of the Historical Overview offers (app-2.py:265)
yrs(df) == {df[i].date[1] : i \in 1..Len(df)}

\* months_data with the months merged how='inner': only the months that
\* have trades
months_data_inner(df, sel_year) ==
    LET inYear(r) == r.date[1] = sel_year
        dfy == SelectSeq(df, inYear)
        groups == {dfy[i].date[2] : i \in 1..Len(dfy)}
        month_of(k) == CHOOSE m \in groups : Cardinality({n \in groups : n < m}) = k - 1
        entry(m) ==
            LET inGroup(r) == r.date[2] = m
                g == SelectSeq(dfy, inGroup)
            IN  [Month |-> m, PL |-> SeqSum([i \in 1..Len(g) |-> g[i].pl]),
                 Trades |-> Len(g)]
    IN  [k \in 1..Cardinality(groups) |-> entry(month_of(k))]

\* months_data of the Historical Overview for the selected year
\* (app-2.py:268-276): group by month, left-merge onto 1..12, fillna(0)
months_data(df, sel_year) ==
    LET inYear(r) == r.date[1] = sel_year
        dfy == SelectSeq(df, inYear)
        groups == {dfy[i].date[2] : i \in 1..Len(dfy)}
        monthly_summary ==
            [m \in groups |->
               LET inGroup(r) == r.date[2] = m
                   g == SelectSeq(dfy, inGroup)
               IN  [PL |-> SeqSum([i \in 1..Len(g) |-> g[i].pl]), Trades |-> Len(g)]]
    IN  [m \in 1..12 |->
           IF m \in groups
           THEN [Month |-> m, PL |-> monthly_summary[m].PL,
                 Trades |-> monthly_summary[m].Trades]
           ELSE [Month |-> m, PL |-> 0, Trades |-> 0]]

\* the cards of the Historical Overview tab: none for an empty frame, which
\* gets the warning "No data available." (app-2.py:263-308)
HistoricalOverview(df, sel_year) ==
    IF df # EmptyFrame THEN months_data(df, sel_year) ELSE <<>>

----------------------------------------------------------------------------
(* Initial sheets *)

\* a ledger longer than the initial slice, as earlier submissions of the
\* trade form left it: the first trade, then trades entered later for an
\* earlier date
LongRow(i) ==
    [pos |-> i,
     date |-> IF i = 1 THEN <<11, 2, 26>> ELSE <<10, 5, 26>>,
     pl |-> <<1>>,
     av |-> IF i = 1 THEN <<1>> ELSE <<2>>]

LongSheet == <<Header>> \o [i \in 1..InitialRows |-> LongRow(i)]

\* a ledger with a Date typed as DD/MM/YY and a blank P/L cell
OddSheet ==
    <<Header,
      [pos |-> 1, date |-> <<25, 12, 24>>, pl |-> <<2>>, av |-> <<2>>],
      [pos |-> 2, date |-> <<10, 5, 26>>, pl |-> <<>>, av |-> <<2>>]>>

InitSheets == {<<Header>>, LongSheet, OddSheet}

Init ==
    /\ sheet \in InitSheets
    /\ cache = NoCache
    /\ trades_df = [s \in Sessions |-> EmptyFrame]
    /\ full_data_loaded = [s \in Sessions |-> FALSE]
    /\ msg = [s \in Sessions |-> "new"]
    /\ nextPos = InitialRows + 1
    /\ rewrites = 0
    /\ faults = 0

----------------------------------------------------------------------------
(* One run of the script for session s.  fault names the call to Google   *)
(* that fails in the run, if any: "client" (get_gspread_client returns     *)
(* None), "initial" and "full" (the loader cannot read the sheet),         *)
(* "append" (append_row of the trade form), "open", "header", "rows" (the  *)
(* calls of update_gsheet).                                                *)
(*                                                                         *)
(* msg[s] is the last status the run of session s showed.  A run that ends *)
(* in st.rerun() is followed by a run without a widget event; so is the    *)
(* opening of the page ("new").  The buttons are clicked on a page that a  *)
(* completed run has rendered.                                             *)

RerunPending(s) ==
    msg[s] \in {"new", "Loading all trades...", "Trade added!",
                "Saved!", "Deleted!", "Cleared!"}

Fault(fault) ==
    /\ fault # "none" => faults < MaxFaults
    /\ faults' = IF fault = "none" THEN faults ELSE faults + 1

\* app-2.py:105-107: <<trades_df, cache>> after the initial load
Line106(s, fault) ==
    IF fault # "client" /\ trades_df[s] = EmptyFrame
    THEN { <<r[1], [cache EXCEPT !.initial = r[2]]>> :
             r \in cache_data(cache.initial,
                              get_initial_data(TRUE, fault # "initial", sheet)) }
    ELSE { <<trades_df[s], cache>> }

\* a run without a widget event, or with an event whose handler is not
\* reached: the tabs load the full data once (app-2.py:184-188, 257-261)
PlainRun(s) ==
    \E fault \in {"none", "client", "initial", "full"} :
    \E top \in Line106(s, fault) :
        /\ Fault(fault)
        /\ IF ~full_data_loaded[s]
           THEN \E r \in cache_data(top[2].full,
                                    get_full_data(fault # "client", fault # "full", sheet)) :
                   /\ trades_df' = [trades_df EXCEPT ![s] = r[1]]
                   /\ cache' = [top[2] EXCEPT !.full = r[2]]
                   /\ full_data_loaded' = [full_data_loaded EXCEPT ![s] = TRUE]
           ELSE /\ trades_df' = [trades_df EXCEPT ![s] = top[1]]
                /\ cache' = top[2]
                /\ UNCHANGED full_data_loaded
        /\ msg' = [msg EXCEPT ![s] = IF full_data_loaded[s] THEN "none"
                                     ELSE "Loading all trades..."]
        /\ UNCHANGED <<sheet, nextPos, rewrites>>

\* the trade form is submitted (app-2.py:120-133); an exception of
\* client.open or append_row ends the run
Submit(s) ==
    /\ ~RerunPending(s)
    /\ nextPos <= InitialRows + MaxAdds
    /\ \E fault \in {"none", "client", "initial", "append"} :
       \E top \in Line106(s, fault) :
       \E date \in DateInputs, pl \in PLInputs :
          /\ Fault(fault)
          /\ IF fault \notin {"client", "append"}
             THEN /\ sheet' = Append(sheet, [pos |-> nextPos, date |-> strftime(date),
                                             pl |-> to_str(pl),
                                             av |-> to_str(new_val(top[1], pl))])
                  /\ cache' = NoCache
                  /\ full_data_loaded' = [full_data_loaded EXCEPT ![s] = FALSE]
                  /\ trades_df' = [trades_df EXCEPT ![s] = EmptyFrame]
                  /\ msg' = [msg EXCEPT ![s] = "Trade added!"]
                  /\ nextPos' = nextPos + 1
                  /\ UNCHANGED rewrites
             ELSE /\ trades_df' = [trades_df EXCEPT ![s] = top[1]]
                  /\ cache' = top[2]
                  /\ msg' = [msg EXCEPT ![s] = "exception"]
                  /\ UNCHANGED <<sheet, full_data_loaded, nextPos, rewrites>>

\* the result of a handler of the All Trades tab that ends in update_gsheet
Rewrite(s, df, r, done) ==
    /\ ~RerunPending(s)
    /\ rewrites < MaxRewrites
    /\ rewrites' = rewrites + 1
    /\ trades_df' = [trades_df EXCEPT ![s] = df]
    /\ sheet' = r.sheet
    /\ cache' = r.cache
    /\ msg' = [msg EXCEPT ![s] = IF r.ok THEN done ELSE "Failed to update sheet"]
    /\ UNCHANGED <<full_data_loaded, nextPos>>

RewriteFaults == {"none", "client", "initial", "open", "header", "rows"}

\* rows the data editor may hand back for row i of the frame: one cell of
\* the row edited, or none
EditedRows(df, i) ==
    {df[i]}
    \cup { [df[i] EXCEPT !.date = d] : d \in EditDates }
    \cup { [df[i] EXCEPT !.pl = p] : p \in EditPL }
    \cup { [df[i] EXCEPT !.av = a] : a \in EditAV }

\* Save Edits (app-2.py:228-234)
SaveEdits(s) ==
    /\ full_data_loaded[s]
    /\ \E fault \in RewriteFaults :
       \E top \in Line106(s, fault) :
          /\ Fault(fault)
          /\ top[1] # EmptyFrame
          /\ \E i \in 1..Len(top[1]) : \E row \in EditedRows(top[1], i) :
             LET df == update(top[1], i :> row)
             IN  \E r \in update_gsheet(fault # "client", df, TRUE, fault, sheet, top[2]) :
                    Rewrite(s, df, r, "Saved!")

\* Delete Selected (app-2.py:236-244)
DeleteSelected(s) ==
    /\ full_data_loaded[s]
    /\ \E fault \in RewriteFaults :
       \E top \in Line106(s, fault) :
          /\ Fault(fault)
          /\ top[1] # EmptyFrame
          /\ \E selected \in SUBSET (1..Len(top[1])) :
             LET df == drop(top[1], selected)
             IN  \E r \in update_gsheet(fault # "client", df, TRUE, fault, sheet, top[2]) :
                    Rewrite(s, df, r, "Deleted!")

\* Clear All (app-2.py:246-250): pd.DataFrame(columns=...) has object
\* columns, so its Date column is not datetimelike
ClearAll(s) ==
    /\ full_data_loaded[s]
    /\ \E fault \in RewriteFaults :
       \E top \in Line106(s, fault) :
          /\ Fault(fault)
          /\ top[1] # EmptyFrame
          /\ \E r \in update_gsheet(fault # "client", EmptyFrame, FALSE, fault, sheet, top[2]) :
                Rewrite(s, EmptyFrame, r, "Cleared!")

\* @st.cache_data(ttl=600): an entry expires
CacheExpire ==
    /\ \E k \in {"initial", "full"} :
          /\ cache[k] # <<>>
          /\ cache' = [cache EXCEPT ![k] = <<>>]
    /\ UNCHANGED <<sheet, trades_df, full_data_loaded, msg, nextPos, rewrites, faults>>

Next ==
    \/ \E s \in Sessions : PlainRun(s)
    \/ \E s \in Sessions : Submit(s)
    \/ \E s \in Sessions : SaveEdits(s)
    \/ \E s \in Sessions : DeleteSelected(s)
    \/ \E s \in Sessions : ClearAll(s)
    \/ CacheExpire

Spec == Init /\ [][Next]_vars

----------------------------------------------------------------------------
(* Properties *)

NotHeader(row) == ~IsHeader(row)

\* the persisted ledger: the trade rows of the sheet in stored order
Ledger(sh) == SelectSeq(sh, NotHeader)

Positions(rows) == {rows[i].pos : i \in 1..Len(rows)}

\* the run session s has just made ended with the status m
Shows(s, m) == msg'[s] # msg[s] /\ msg'[s] = m

BalanceRecurrence(sh) ==
    LET L == Ledger(sh)
    IN  \A i \in 1..Len(L) :
           to_numeric(L[i].av) =
              (IF i = 1 THEN 0 ELSE to_numeric(L[i - 1].av)) + to_numeric(L[i].pl)

\* C1: a Save Edits that changes a P/L and succeeds, in a history without
\* failed calls and from a session ledger that holds every persisted trade
\* of a sheet in balance, persists a ledger that satisfies the balance
\* recurrence:
\* every account value is the account value of the row before it (0 before
\* the first) plus the row's P/L, the values of the edited trade and of the
\* later ones having been re-derived before the rewrite.
C1_RecurrenceAfterBulkSave ==
    [][\A s \in Sessions :
          (/\ Shows(s, "Saved!")
           /\ faults' = 0
           /\ BalanceRecurrence(sheet)
           /\ Positions(Ledger(sheet)) = Positions(trades_df[s])
           /\ Len(trades_df'[s]) = Len(trades_df[s])
           /\ \E i \in 1..Len(trades_df[s]) : trades_df'[s][i].pl # trades_df[s][i].pl)
          => BalanceRecurrence(sheet')]_vars

\* C2: in a history without failed calls, the trade form appends a row whose
\* account value is its P/L plus the account value of the last row of the
\* persisted ledger (the most recently inserted trade), or plus 0 when the
\* ledger is empty.
C2_NextValueFromLastEntry ==
    [][\A s \in Sessions :
          (Shows(s, "Trade added!") /\ faults' = 0) =>
             LET L == Ledger(sheet)
                 new == sheet'[Len(sheet')]
             IN  to_numeric(new.av) =
                    (IF L = <<>> THEN 0 ELSE to_numeric(L[Len(L)].av))
                    + to_numeric(new.pl)]_vars

\* C3: a Save Edits, Delete Selected or Clear All that fails leaves the
\* sheet and the session ledger as they were before the run.
C3_FailedSaveChangesNothing ==
    [][\A s \in Sessions :
          (Shows(s, "Failed to update sheet") /\ faults = 0) =>
             /\ sheet' = sheet
             /\ trades_df'[s] = trades_df[s]]_vars

\* C4: a persisted row whose Date does not parse is still persisted after
\* a Save Edits or Delete Selected that succeeded, in a history without
\* failed calls (the row cannot have been selected: the editor does not
\* show it).
C4_UnparseableRowSurvivesSave ==
    [][\A s \in Sessions :
          ((Shows(s, "Saved!") \/ Shows(s, "Deleted!")) /\ faults' = 0) =>
             \A i \in 1..Len(sheet) :
                (NotHeader(sheet[i]) /\ to_datetime(sheet[i].date) = NaT)
                => sheet[i].pos \in Positions(Ledger(sheet'))]_vars

\* C5: every run that ends with a successful append (Trade added!) or a
\* successful rewrite of the sheet (Saved!, Deleted!, Cleared!) leaves both
\* entries of the loaders' cache empty, so that the next load of the session
\* reads the sheet.
C5_WriteInvalidatesCache ==
    [][\A s \in Sessions :
          (\/ Shows(s, "Trade added!") \/ Shows(s, "Saved!")
           \/ Shows(s, "Deleted!") \/ Shows(s, "Cleared!"))
          => cache' = NoCache]_vars

\* C5 witness: a session has just saved its edits, another session had
\* loaded (and cached) the ledger before, and the cache is empty.
C5_Witness ==
    \E s, t \in Sessions :
       /\ s # t
       /\ msg[s] = "Saved!"
       /\ full_data_loaded[t] /\ trades_df[t] # EmptyFrame
       /\ cache = NoCache

\* C6: no write is checked against what the other sessions stored.  A
\* successful rewrite leaves in the sheet exactly the rows of the writing
\* session's ledger, and a successful append adds its row to whatever the
\* sheet holds.
C6_LastWriterWins ==
    [][\A s \in Sessions :
          /\ (Shows(s, "Saved!") \/ Shows(s, "Deleted!")) =>
                /\ sheet'[1] = Header
                /\ Len(sheet') = Len(trades_df'[s]) + 1
                /\ Positions(Ledger(sheet')) = Positions(trades_df'[s])
          /\ Shows(s, "Trade added!") =>
                sheet' = Append(sheet, sheet'[Len(sheet')])]_vars

\* C6 witness: session t has appended a trade (the label nextPos - 1) and
\* was told so, session s has then saved its ledger and was told so, and
\* the sheet does not hold the trade of t.
C6_Witness ==
    \E s, t \in Sessions :
       /\ s # t
       /\ msg[t] = "Trade added!"
       /\ msg[s] = "Saved!"
       /\ nextPos > InitialRows + 1
       /\ (nextPos - 1) \notin Positions(Ledger(sheet))

\* C7: a Clear All, in a history without failed calls, leaves the header
\* row and no trade row in the sheet.
C7_ClearAllEmptiesSheet ==
    [][\A s \in Sessions :
          (ClearAll(s) /\ faults' = 0) => sheet' = <<Header>>]_vars

IsDateDescending(df) ==
    \A i \in 1..(Len(df) - 1) : ~DateLT(df[i].date, df[i + 1].date)

\* the rows of the frame dated in the month / the year of now
MonthRows(df, now) == {i \in 1..Len(df) : InMonth(df[i], now)}
YearRows(df, now) == {i \in 1..Len(df) : InYear(df[i], now)}

\* among the rows idx, those with the latest date
Latest(df, idx) ==
    {i \in idx : \A j \in idx : ~DateLT(df[i].date, df[j].date)}

\* the row of Latest that was entered last: labels grow with entry
LaterEntry(df, idx) ==
    CHOOSE i \in Latest(df, idx) : \A j \in Latest(df, idx) : df[j].pos <= df[i].pos

\* the account value of the latest entry among the rows idx of a window
ChronologicallyLast(df, idx) ==
    IF idx # {} THEN df[LaterEntry(df, idx)].av
    ELSE df[LaterEntry(df, 1..Len(df))].av

\* C8 as stated, for ledgers that no Save Edits or Delete Selected has
\* touched: the last account value of each window is the account value of
\* the trade with the latest date in the window, the later entry winning
\* among trades that share it, and the all-time one when the window is empty.
C8_LaterEntryWins ==
    \A s \in Sessions : (trades_df[s] # EmptyFrame /\ rewrites = 0) =>
       \A now \in Nows :
          LET df == trades_df[s]
              d == Dashboard(df, now)
          IN  /\ d.last_month = ChronologicallyLast(df, MonthRows(df, now))
              /\ d.last_year = ChronologicallyLast(df, YearRows(df, now))
              /\ d.last_overall = ChronologicallyLast(df, 1..Len(df))

\* the first row of the frame among the rows idx, the first row when none
FirstOf(df, idx) ==
    IF idx # {} THEN CHOOSE i \in idx : \A j \in idx : i <= j ELSE 1

\* C8 as amended: the last account value of a window is the account value
\* of the first row of the session ledger among the rows dated in the
\* window, and of the first row of all when the window is empty.  While the
\* ledger is in the date-descending order of a load, that row carries the
\* latest date of the window; which of the trades sharing that date it is,
\* entry order does not decide.  Every cached frame is date-descending.
C8_LastValueOfWindow ==
    /\ \A s \in Sessions : trades_df[s] # EmptyFrame =>
          \A now \in Nows :
             LET df == trades_df[s]
                 d == Dashboard(df, now)
                 m == MonthRows(df, now)
                 y == YearRows(df, now)
                 all == 1..Len(df)
             IN  /\ d.last_month = df[FirstOf(df, m)].av
                 /\ d.last_year = df[FirstOf(df, y)].av
                 /\ d.last_overall = df[1].av
                 /\ IsDateDescending(df) =>
                       /\ FirstOf(df, m) \in Latest(df, IF m # {} THEN m ELSE all)
                       /\ FirstOf(df, y) \in Latest(df, IF y # {} THEN y ELSE all)
                       /\ 1 \in Latest(df, all)
    /\ \A k \in {"initial", "full"} :
          cache[k] # <<>> => IsDateDescending(cache[k][1])

\* C8 witness: a date-descending session ledger in which two trades share
\* the latest date of the current month and the dashboard shows the account
\* value of the one entered first, which differs from the other's.
C8_Witness ==
    \E s \in Sessions : \E now \in Nows :
       LET df == trades_df[s]
           m == MonthRows(df, now)
       IN  /\ df # EmptyFrame
           /\ IsDateDescending(df)
           /\ Cardinality(Latest(df, m)) >= 2
           /\ \E i, j \in Latest(df, m) :
                 /\ df[i].pos < df[j].pos
                 /\ df[i].av # df[j].av
                 /\ Dashboard(df, now).last_month = df[i].av

\* count and P/L of the rows of the frame dated in month m of year y
MonthCount(df, y, m) ==
    Cardinality({i \in 1..Len(df) : df[i].date[1] = y /\ df[i].date[2] = m})

MonthPL(df, y, m) ==
    SeqSum([i \in 1..Len(df) |->
              IF df[i].date[1] = y /\ df[i].date[2] = m THEN df[i].pl ELSE 0])

TwelveMonths(b, df, y) ==
    /\ DOMAIN b = 1..12
    /\ \A m \in 1..12 :
          /\ b[m].Month = m
          /\ b[m].Trades = MonthCount(df, y, m)
          /\ b[m].PL = MonthPL(df, y, m)

\* C9 as stated: for every session ledger the Historical Overview has
\* rendered, the empty one included, and every year, the breakdown has twelve
\* entries January..December with the count and the P/L of the month.
C9_TwelveMonthsForAnyLedger ==
    \A s \in Sessions : msg[s] = "none" =>
       \A y \in Years :
          TwelveMonths(HistoricalOverview(trades_df[s], y), trades_df[s], y)

\* C9 as amended: for a session ledger that is not empty and every year the
\* selectbox offers (the years of its trades), the breakdown has twelve
\* entries January..December with the count and the P/L of the month, zeros
\* for a month without trades; for an empty ledger the tab shows no
\* breakdown.
C9_TwelveMonthsForLoadedLedger ==
    \A s \in Sessions :
       IF trades_df[s] # EmptyFrame
       THEN \A y \in yrs(trades_df[s]) :
               TwelveMonths(HistoricalOverview(trades_df[s], y), trades_df[s], y)
       ELSE \A y \in Years : HistoricalOverview(trades_df[s], y) = <<>>

\* C9 witness: a session ledger with trades in October and in November of
\* 2026 and none in February; the breakdown of 2026 counts them so.
C9_Witness ==
    \E s \in Sessions :
       /\ trades_df[s] # EmptyFrame
       /\ 2026 \in yrs(trades_df[s])
       /\ LET b == HistoricalOverview(trades_df[s], 2026)
          IN  b[10].Trades >= 1 /\ b[11].Trades >= 1 /\ b[2].Trades = 0 /\ b[2].PL = 0

\* C10: when a Save Edits rewrites a sheet that nobody has written to since
\* the page was opened, the session ledger it writes holds every persisted
\* trade with a valid date.
C10_RewriteFromFullLedger ==
    [][\A s \in Sessions :
          (Shows(s, "Saved!") /\ rewrites = 0 /\ nextPos = InitialRows + 1) =>
             \A i \in 1..Len(sheet) :
                (NotHeader(sheet[i]) /\ to_datetime(sheet[i].date) # NaT)
                => sheet[i].pos \in Positions(trades_df'[s])]_vars

====
